---- MODULE Spec2Model ----
(***************************************************************************)
(* Resumable concurrent batch processing of origin-destination zone pairs  *)
(* (master.py, workers.py, file_manager.py, api_client.py, config.py).     *)
(*                                                                         *)
(* Python values are encoded as follows.                                   *)
(*   None / a value v        the sequences <<>> / <<v>>                    *)
(*   a text (str)            a sequence of characters; a fixed piece of a  *)
(*                           text ("Origin '", a column name) is one       *)
(*                           character of that sequence                    *)
(*   a csv row               the sequence of its cells, each a text        *)
(*   a file                  <<>> when absent, <<rows>> when present       *)
(***************************************************************************)
EXTENDS Integers, Sequences, FiniteSets, TLC

\* ---------------------------------------------------------------- bounds
MaxLen == 2          \* longest pair list fed to the pipeline
MaxWorkers == 2      \* largest configured worker count
MaxPartLen == 5      \* longest pair list fed to the partition alone
MaxPartWorkers == 4  \* largest worker count fed to the partition alone

\* ------------------------------------------------------------ input data
Zones == {1, 2}
Pairs == Zones \X Zones
\* the coordinate table: rows (ZAT, lon, lat); zone 2 has no row
coords_df == {<<1, 74, 4>>}

\* ids of the worker tasks main can launch: enumerate(work_blocks)
WorkerIds == 0 .. ((IF MaxWorkers >= MaxPartWorkers THEN MaxWorkers ELSE MaxPartWorkers) - 1)

None == <<>>
Some(v) == <<v>>

Min(a, b) == IF a <= b THEN a ELSE b

\* all sequences over S of length 0..n
RECURSIVE SeqsUpTo(_, _)
SeqsUpTo(S, n) ==
  IF n = 0 THEN {<<>>}
  ELSE LET shorter == SeqsUpTo(S, n - 1)
       IN  shorter \cup {Append(s, x) : s \in {t \in shorter : Len(t) = n - 1}, x \in S}

\* ------------------------------------------------------------ text, csv
DigitChars == <<"0", "1", "2", "3", "4", "5", "6", "7", "8", "9">>
IsDigit(c) == \E d \in 1..10 : DigitChars[d] = c
DigitVal(c) == (CHOOSE d \in 1..10 : DigitChars[d] = c) - 1

\* str(n) for an int n >= 0
RECURSIVE IntToStr(_)
IntToStr(n) ==
  IF n < 10 THEN <<DigitChars[n + 1]>>
  ELSE IntToStr(n \div 10) \o <<DigitChars[(n % 10) + 1]>>

\* int(s) succeeds on a non-empty run of digits, raises ValueError otherwise
IsIntText(s) == Len(s) > 0 /\ \A i \in 1..Len(s) : IsDigit(s[i])

RECURSIVE StrToInt(_)
StrToInt(s) ==
  IF Len(s) = 1 THEN DigitVal(s[1])
  ELSE 10 * StrToInt(SubSeq(s, 1, Len(s) - 1)) + DigitVal(s[Len(s)])

headers == <<"zat_ori", "zat_des", "distance_m", "duration_s", "error_api">>
HeaderRow == [c \in 1..5 |-> <<headers[c]>>]

\* a cell as csv.DictWriter writes it: None is the empty text
IntCell(opt) == IF opt = None THEN <<>> ELSE IntToStr(opt[1])
TextCell(opt) == IF opt = None THEN <<>> ELSE opt[1]

RowOf(r) ==
  <<IntToStr(r.zat_ori), IntToStr(r.zat_des), IntCell(r.distance_m),
    IntCell(r.duration_s), TextCell(r.error_api)>>

\* ------------------------------------------------------------- partition
\* math.ceil(a / b)
CeilDiv(a, b) == IF a % b = 0 THEN a \div b ELSE (a \div b) + 1

\* list(range(start, stop, step))
RECURSIVE Range(_, _, _)
Range(start, stop, step) ==
  IF start >= stop THEN <<>> ELSE <<start>> \o Range(start + step, stop, step)

\* list[i:j] taken with j inclusive
SliceInclusive(list, i, j) == SubSeq(list, i + 1, Min(j + 1, Len(list)))

\* list[i:j] for 0 <= i <= j
Slice(list, i, j) == SubSeq(list, i + 1, Min(j, Len(list)))

\* the block size taken with // for math.ceil
block_size_floor(full_tuple_list, n) ==
  IF Len(full_tuple_list) \div n = 0 THEN 1 ELSE Len(full_tuple_list) \div n

block_size_of(full_tuple_list, n) == CeilDiv(Len(full_tuple_list), n)

WorkBlocks(full_tuple_list, n) ==
  LET block_size == block_size_of(full_tuple_list, n)
      starts == Range(0, Len(full_tuple_list), block_size)
  IN  [k \in 1..Len(starts) |-> Slice(full_tuple_list, starts[k], starts[k] + block_size)]

\* ---------------------------------------------------- coordinate lookup
\* get_coordinates: [lon, lat] of the zone's row, None when it has none
get_coordinates(zone_id, df) ==
  IF \E r \in df : r[1] = zone_id
  THEN LET r == CHOOSE r \in df : r[1] = zone_id IN Some(<<r[2], r[3]>>)
  ELSE None

\* ---------------------------------------------------- distance provider
\* What one HTTP exchange can come to.  transport: "ok" (a 2xx response
\* with a JSON body), or the RequestException raised by requests.get or by
\* raise_for_status (a timeout, a refused connection, a 4xx/5xx answer:
\* all one class to the code, told apart only by the text of e).
\* status / error_message: the body's top-level keys, None when absent.
\* element: rows[0].elements[0], None when rows or elements is empty.
\* The answers drawn: a route, no route (element status ZERO_RESULTS), a
\* body with no rows, a timeout.
Metrics == {5}
OkElements == {[status |-> "OK", distance |-> Some(d), duration |-> Some(t)] :
               d \in Metrics, t \in Metrics}
FailedElement == [status |-> "ZERO_RESULTS", distance |-> None, duration |-> None]
ProviderResponses ==
  {[transport |-> "ok", status |-> Some("OK"), error_message |-> None,
    element |-> Some(e)] : e \in OkElements \cup {FailedElement}}
  \cup
  {[transport |-> "ok", status |-> Some("OK"), error_message |-> None, element |-> None],
   [transport |-> "ConnectTimeout", status |-> None, error_message |-> None,
    element |-> None]}

\* the exception get_google_distance_time lets through, None when it returns
ProviderRaises(resp) ==
  IF resp.transport # "ok" THEN None                 \* RequestException, caught
  ELSE IF resp.status = None THEN Some("KeyError")   \* data['status']
  ELSE IF resp.status = Some("OK") /\ resp.element = None
       THEN Some("IndexError")                       \* data['rows'][0]['elements'][0]
  ELSE IF resp.status = Some("OK") /\ resp.element[1].status = "OK"
          /\ (resp.element[1].distance = None \/ resp.element[1].duration = None)
       THEN Some("KeyError")                         \* element['distance']['value']
  ELSE None

\* the dict get_google_distance_time returns (when it returns)
get_google_distance_time(origin_coords, dest_coords, resp) ==
  IF resp.transport # "ok"
  THEN [error_api |-> Some(<<"Connection Error: ", resp.transport>>)]
  ELSE IF resp.status = Some("OK") /\ resp.element # None /\ resp.element[1].status = "OK"
  THEN [distance_m |-> resp.element[1].distance, duration_s |-> resp.element[1].duration]
  ELSE LET status == IF resp.error_message # None THEN resp.error_message[1]
                     ELSE resp.status[1]
       IN  [error_api |-> Some(<<"Google API Error: ", status>>)]

\* ------------------------------------------------------- pair processor
\* dict.update left out
UpdateDropped(d, other) == d

\* dict.update
Update(d, other) == [k \in DOMAIN d |-> IF k \in DOMAIN other THEN other[k] ELSE d[k]]

\* ". ".join(errors)
RECURSIVE Join(_, _)
Join(sep, texts) ==
  IF texts = <<>> THEN <<>>
  ELSE IF Len(texts) = 1 THEN texts[1]
  ELSE texts[1] \o <<sep>> \o Join(sep, Tail(texts))

OriginError(zone) == <<"Origin '">> \o IntToStr(zone) \o <<"' no coords">>
DestError(zone) == <<"Dest '">> \o IntToStr(zone) \o <<"' no coords">>

\* `or` for `and`
EitherResolved(origin_coords, dest_coords) == origin_coords # None \/ dest_coords # None

\* `if origin_coords and dest_coords`: a list of two floats is truthy
BothResolved(origin_coords, dest_coords) == origin_coords # None /\ dest_coords # None

\* _process_one_tuple.  called: whether the provider was queried; raised:
\* the exception that leaves the function, None when it returns result.
_process_one_tuple(single_tuple, df, resp) ==
  LET origin_zone == single_tuple[1]
      dest_zone == single_tuple[2]
      result_dict == [zat_ori |-> origin_zone, zat_des |-> dest_zone,
                      distance_m |-> None, duration_s |-> None, error_api |-> None]
      origin_coords == get_coordinates(origin_zone, df)
      dest_coords == get_coordinates(dest_zone, df)
  IN  IF BothResolved(origin_coords, dest_coords)
      THEN [called |-> TRUE,
            raised |-> ProviderRaises(resp),
            result |-> IF ProviderRaises(resp) # None THEN result_dict
                       ELSE Update(result_dict,
                                   get_google_distance_time(origin_coords[1], dest_coords[1], resp))]
      ELSE LET errors == (IF origin_coords = None THEN <<OriginError(origin_zone)>> ELSE <<>>)
                         \o (IF dest_coords = None THEN <<DestError(dest_zone)>> ELSE <<>>)
           IN  [called |-> FALSE,
                raised |-> None,
                result |-> [result_dict EXCEPT !.error_api = Some(Join(". ", errors))]]

\* -------------------------------------------------------- progress store
\* The loop of read_worker_progress over the rows after the header.
\* int(row[0]) is evaluated before row[1] is touched.
RECURSIVE ReadRows(_, _, _)
ReadRows(rows, i, acc) ==
  IF i > Len(rows) THEN [raised |-> None, processed_tuples |-> acc]
  ELSE LET row == rows[i] IN
       IF Len(row) < 1 THEN [raised |-> None, processed_tuples |-> acc]      \* IndexError, caught
       ELSE IF ~IsIntText(row[1]) THEN [raised |-> Some("ValueError"), processed_tuples |-> acc]
       ELSE IF Len(row) < 2 THEN [raised |-> None, processed_tuples |-> acc] \* IndexError, caught
       ELSE IF ~IsIntText(row[2]) THEN [raised |-> Some("ValueError"), processed_tuples |-> acc]
       ELSE ReadRows(rows, i + 1, acc \cup {<<StrToInt(row[1]), StrToInt(row[2])>>})

\* read_worker_progress taking the rows without an error only
read_worker_progress_successes(file) ==
  IF file = None THEN [raised |-> None, processed_tuples |-> {}]
  ELSE IF file[1] = <<>> THEN [raised |-> None, processed_tuples |-> {}]
  ELSE ReadRows(SelectSeq(Tail(file[1]), LAMBDA row : Len(row) < 5 \/ row[5] = <<>>), 1, {})

\* read_worker_progress skipping a data row with the header
read_worker_progress_skips_row(file) ==
  IF file = None THEN [raised |-> None, processed_tuples |-> {}]
  ELSE IF file[1] = <<>> THEN [raised |-> None, processed_tuples |-> {}]
  ELSE ReadRows(file[1], 3, {})

\* read_worker_progress without StopIteration among the exceptions it catches
read_worker_progress_no_stop(file) ==
  IF file = None THEN [raised |-> None, processed_tuples |-> {}]
  ELSE IF file[1] = <<>> THEN [raised |-> Some("StopIteration"), processed_tuples |-> {}]
  ELSE ReadRows(file[1], 2, {})

\* read_worker_progress on the worker's file
read_worker_progress(file) ==
  IF file = None THEN [raised |-> None, processed_tuples |-> {}]            \* os.path.exists
  ELSE IF file[1] = <<>> THEN [raised |-> None, processed_tuples |-> {}]    \* StopIteration, caught
  ELSE ReadRows(file[1], 2, {})

\* the whole block taken as the work to do
WorkToDoAll(assigned_job, already_done) == assigned_job

\* [t for t in assigned_job if t not in already_done_tuples]
WorkToDo(assigned_job, already_done) ==
  SelectSeq(assigned_job, LAMBDA t : t \notin already_done)

\* A directory lists its entries in an order of the file system's choosing:
\* a new entry takes any place among those there are.
InsertAt(entries, k, name) ==
  SubSeq(entries, 1, k) \o <<name>> \o SubSeq(entries, k + 1, Len(entries))

\* is_new_file without the size test
IsNewFileByExistence(file) == file = None

\* is_new_file of write_worker_result
IsNewFile(file) == file = None \/ file[1] = <<>>

\* the file after a write_worker_result that opens it with 'w'
write_worker_result_rewriting(file, is_new, result_dict) ==
  Some((IF is_new THEN <<HeaderRow>> ELSE <<>>) \o <<RowOf(result_dict)>>)

\* the file after write_worker_result closed it
write_worker_result(file, is_new, result_dict) ==
  LET before == IF file = None THEN <<>> ELSE file[1]
  IN  Some(before \o (IF is_new THEN <<HeaderRow>> ELSE <<>>) \o <<RowOf(result_dict)>>)

\* ----------------------------------------------------------- consolidator
\* a row with fewer fields than the header has: the missing ones are NaN
PadRow(row) == [c \in 1..5 |-> IF c <= Len(row) THEN row[c] ELSE <<>>]

\* rows of a progress file as pd.read_csv frames them: None for an empty
\* file (EmptyDataError), else the rows below the first one
ReadCsv(file) ==
  IF file[1] = <<>> THEN None
  ELSE Some([i \in 1..(Len(file[1]) - 1) |-> PadRow(file[1][i + 1])])

RECURSIVE ConcatFrames(_)
ConcatFrames(frames) ==
  IF frames = <<>> THEN <<>> ELSE frames[1][1] \o ConcatFrames(Tail(frames))

\* a numeric column holding a blank is float64, written back with ".0"
IsFloatColumn(rows, c) == \E i \in 1..Len(rows) : rows[i][c] = <<>>

ToCsvCell(rows, i, c) ==
  IF c \in 1..4 /\ rows[i][c] # <<>> /\ IsFloatColumn(rows, c)
  THEN rows[i][c] \o <<".", "0">>
  ELSE rows[i][c]

\* consolidate_final_work keeping the last frame it read only
consolidate_final_work_last_frame(old_output, listed_files) ==
  LET all_dfs == SelectSeq([k \in 1..Len(listed_files) |-> ReadCsv(listed_files[k])],
                           LAMBDA df : df # None)
      rows == IF all_dfs = <<>> THEN <<>> ELSE all_dfs[Len(all_dfs)][1]
  IN  IF all_dfs = <<>> THEN old_output
      ELSE Some(<<HeaderRow>> \o
                [i \in 1..Len(rows) |-> [c \in 1..5 |-> ToCsvCell(rows, i, c)]])

\* consolidate_final_work: the output file it leaves, given the one there
\* was and the progress files in os.listdir order
consolidate_final_work(old_output, listed_files) ==
  LET all_dfs == SelectSeq([k \in 1..Len(listed_files) |-> ReadCsv(listed_files[k])],
                           LAMBDA df : df # None)
      rows == ConcatFrames(all_dfs)
  IN  IF all_dfs = <<>> THEN old_output
      ELSE Some(<<HeaderRow>> \o
                [i \in 1..Len(rows) |-> [c \in 1..5 |-> ToCsvCell(rows, i, c)]])

\* ------------------------------------------------------------------ state
VARIABLES
  api_key,        \* config.API_KEY: None, or Some(text)
  tuples_file,    \* the pair list file: None, or Some(list of pairs)
  NUM_WORKERS,    \* config.NUM_WORKERS
  dirs,           \* the directories that exist
  files,          \* worker id -> its progress file
  listing,        \* the worker ids whose file exists, in os.listdir order
  output,         \* the consolidated output file
  mpc,            \* where main is: "start", "no_key", "no_input", "no_tuples", "running", "finished"
  work_blocks,    \* main's work_blocks
  pc,             \* worker id -> where execute_worker_job is
  already_done_tuples,   \* worker id -> already_done_tuples
  work_to_do,     \* worker id -> work_to_do
  idx,            \* worker id -> position in work_to_do of the loop
  result,         \* worker id -> result of the pair in flight
  is_new_file,    \* worker id -> is_new_file of the write in progress
  lock,           \* file_lock: None, or Some(worker id holding it)
  raised,         \* worker id -> the exception its future holds, or None
  processed,      \* history: worker id -> pairs given to _process_one_tuple this run
  calls,          \* history: worker id -> pairs the provider was queried for this run
  appended,       \* history: worker id -> rows appended this run
  prev            \* history: how the previous run ended

config == <<api_key, tuples_file, NUM_WORKERS>>
disk == <<dirs, files, listing, output>>
master == <<mpc, work_blocks>>
locals == <<already_done_tuples, work_to_do, idx, result, is_new_file>>
history == <<processed, calls, appended, prev>>
vars == <<config, disk, master, pc, locals, lock, raised, history>>

INPUT_DIR == "files"
BLOCKS_DIR == "blocks"

EmptyResult == [zat_ori |-> 0, zat_des |-> 0, distance_m |-> None,
                duration_s |-> None, error_api |-> None]

\* a key is a text; the placeholder is one piece of it
ApiKeys == {None, Some(<<>>), Some(<<"YOUR_API_KEY">>), Some(<<"AIza">>)}

\* `not API_KEY or "YOUR_API_KEY" in API_KEY`
KeyRefused(key) ==
  key = None \/ key[1] = <<>> \/ \E i \in 1..Len(key[1]) : key[1][i] = "YOUR_API_KEY"

\* what is common to every initial state: nothing has run yet
InitControl ==
  /\ output = None
  /\ mpc = "start"
  /\ work_blocks = <<>>
  /\ pc = [w \in WorkerIds |-> "idle"]
  /\ already_done_tuples = [w \in WorkerIds |-> {}]
  /\ work_to_do = [w \in WorkerIds |-> <<>>]
  /\ idx = [w \in WorkerIds |-> 0]
  /\ result = [w \in WorkerIds |-> EmptyResult]
  /\ is_new_file = [w \in WorkerIds |-> FALSE]
  /\ lock = None
  /\ raised = [w \in WorkerIds |-> None]
  /\ processed = [w \in WorkerIds |-> <<>>]
  /\ calls = [w \in WorkerIds |-> <<>>]
  /\ appended = [w \in WorkerIds |-> 0]
  /\ prev = [clean |-> FALSE, output |-> None]

\* a first run on a machine that holds no progress file yet
Init ==
  /\ api_key \in ApiKeys
  /\ tuples_file \in {None} \cup {Some(l) : l \in SeqsUpTo(Pairs, MaxLen)}
  /\ NUM_WORKERS \in 1..MaxWorkers
  /\ dirs = IF tuples_file = None THEN {} ELSE {INPUT_DIR}
  /\ files = [w \in WorkerIds |-> None]
  /\ listing = <<>>
  /\ InitControl

\* ---------------------------------------------------------------- master
Launched == {w \in WorkerIds : w < Len(work_blocks)}

\* main, from its first line to the submission of the worker tasks
MainStart ==
  /\ mpc = "start"
  /\ IF KeyRefused(api_key)
     THEN /\ mpc' = "no_key"
          /\ UNCHANGED <<dirs, work_blocks, pc>>
     ELSE /\ dirs' = dirs \cup {INPUT_DIR, BLOCKS_DIR}
          /\ IF tuples_file = None
             THEN /\ mpc' = "no_input"
                  /\ UNCHANGED <<work_blocks, pc>>
             ELSE IF tuples_file[1] = <<>>
             THEN /\ mpc' = "no_tuples"
                  /\ UNCHANGED <<work_blocks, pc>>
             ELSE /\ work_blocks' = WorkBlocks(tuples_file[1], NUM_WORKERS)
                  /\ pc' = [w \in WorkerIds |->
                              IF w < Len(work_blocks') THEN "start" ELSE "idle"]
                  /\ mpc' = "running"
  /\ UNCHANGED <<config, files, listing, output, locals, lock, raised, history>>

\* the pool left at the first future that is done
FirstFutureDone == \E w \in Launched : pc[w] \in {"done", "failed"}

\* as_completed is exhausted and the `with` of the pool is left: every
\* future is done, by return or by exception
AllFuturesDone == \A w \in Launched : pc[w] \in {"done", "failed"}

\* main, once every future is done: consolidate_final_work and return
MainConsolidate ==
  /\ mpc = "running"
  /\ AllFuturesDone
  /\ output' = consolidate_final_work(output, [k \in 1..Len(listing) |-> files[listing[k]]])
  /\ mpc' = "finished"
  /\ UNCHANGED <<config, dirs, files, listing, work_blocks, pc, locals, lock,
                 raised, history>>

\* a new process: only the disk is kept
NewProcess ==
  /\ mpc' = "start"
  /\ work_blocks' = <<>>
  /\ pc' = [w \in WorkerIds |-> "idle"]
  /\ already_done_tuples' = [w \in WorkerIds |-> {}]
  /\ work_to_do' = [w \in WorkerIds |-> <<>>]
  /\ idx' = [w \in WorkerIds |-> 0]
  /\ result' = [w \in WorkerIds |-> EmptyResult]
  /\ is_new_file' = [w \in WorkerIds |-> FALSE]
  /\ lock' = None
  /\ raised' = [w \in WorkerIds |-> None]
  /\ processed' = [w \in WorkerIds |-> <<>>]
  /\ calls' = [w \in WorkerIds |-> <<>>]
  /\ appended' = [w \in WorkerIds |-> 0]
  /\ UNCHANGED <<config, disk>>

\* the program is run again after main returned from consolidation
Rerun ==
  /\ mpc = "finished"
  /\ prev' = IF \A w \in WorkerIds : raised[w] = None
              THEN [clean |-> TRUE, output |-> output]
              ELSE [clean |-> FALSE, output |-> None]
  /\ NewProcess

\* the process is terminated while the workers run, and the program is run again
Crash ==
  /\ mpc = "running"
  /\ prev' = [clean |-> FALSE, output |-> None]
  /\ NewProcess

\* ---------------------------------------------------------------- worker
\* every task handed the first block
AssignedJobFirst(blocks, worker_id) == blocks[1]

\* the block submitted with worker id i: enumerate(work_blocks)
AssignedJob(blocks, worker_id) == blocks[worker_id + 1]

\* execute_worker_job, lines 43-52: load the progress, compute the remainder
LoadProgress(w) ==
  /\ mpc = "running"
  /\ pc[w] = "start"
  /\ LET progress == read_worker_progress(files[w])
         remaining == WorkToDo(AssignedJob(work_blocks, w), progress.processed_tuples)
     IN  IF progress.raised # None
         THEN /\ pc' = [pc EXCEPT ![w] = "failed"]
              /\ raised' = [raised EXCEPT ![w] = progress.raised]
              /\ UNCHANGED <<already_done_tuples, work_to_do, idx>>
         ELSE /\ already_done_tuples' = [already_done_tuples EXCEPT ![w] = progress.processed_tuples]
              /\ work_to_do' = [work_to_do EXCEPT ![w] = remaining]
              /\ idx' = [idx EXCEPT ![w] = 1]
              /\ pc' = [pc EXCEPT ![w] = IF remaining = <<>> THEN "done" ELSE "loop"]
              /\ UNCHANGED raised
  /\ UNCHANGED <<config, disk, master, result, is_new_file, lock, history>>

\* what the provider may answer to the call made for a pair; one answer
\* stands for all when the pair processor makes no call
ProviderAnswers(single_tuple) ==
  LET unasked == CHOOSE resp \in ProviderResponses : TRUE
  IN  IF _process_one_tuple(single_tuple, coords_df, unasked).called
      THEN ProviderResponses ELSE {unasked}

\* execute_worker_job, line 56: _process_one_tuple on the next remaining pair
ProcessPair(w) ==
  /\ mpc = "running"
  /\ pc[w] = "loop"
  /\ \E resp \in ProviderAnswers(work_to_do[w][idx[w]]) :
       LET single_tuple == work_to_do[w][idx[w]]
           out == _process_one_tuple(single_tuple, coords_df, resp)
       IN  /\ processed' = [processed EXCEPT ![w] = Append(@, single_tuple)]
           /\ calls' = [calls EXCEPT ![w] = IF out.called THEN Append(@, single_tuple) ELSE @]
           /\ IF out.raised # None
              THEN /\ pc' = [pc EXCEPT ![w] = "failed"]
                   /\ raised' = [raised EXCEPT ![w] = out.raised]
                   /\ UNCHANGED result
              ELSE /\ pc' = [pc EXCEPT ![w] = "write"]
                   /\ result' = [result EXCEPT ![w] = out.result]
                   /\ UNCHANGED raised
  /\ UNCHANGED <<config, disk, master, already_done_tuples, work_to_do, idx, is_new_file,
                 lock, appended, prev>>

\* `with lock` entered whoever holds the lock
LockIgnored(l) == TRUE

\* `with lock`: the thread goes on once no thread holds the lock
LockFree(l) == l = None

\* the lock left held when the `with lock` block is left
LockKept(w) == Some(w)

\* the lock once the `with lock` block is left, by return or by exception
LockReleased(w) == None

\* write_worker_result, lines 56-59: `with lock`, is_new_file, then
\* open(worker_file, 'a'), which creates the file when there is none
OpenFile(w) ==
  /\ mpc = "running"
  /\ pc[w] = "write"
  /\ LockFree(lock)
  /\ lock' = Some(w)
  /\ is_new_file' = [is_new_file EXCEPT ![w] = IsNewFile(files[w])]
  /\ files' = [files EXCEPT ![w] = IF @ = None THEN Some(<<>>) ELSE @]
  /\ IF files[w] # None THEN listing' = listing
     ELSE \E k \in 0..Len(listing) : listing' = InsertAt(listing, k, w)
  /\ pc' = [pc EXCEPT ![w] = "opened"]
  /\ UNCHANGED <<config, dirs, output, master, already_done_tuples, work_to_do, idx, result,
                 raised, history>>

\* write_worker_result, lines 56-59: open raises OSError; leaving the
\* `with` block releases the lock
OpenFails(w) ==
  /\ mpc = "running"
  /\ pc[w] = "write"
  /\ LockFree(lock)
  /\ lock' = LockReleased(w)
  /\ pc' = [pc EXCEPT ![w] = "failed"]
  /\ raised' = [raised EXCEPT ![w] = Some("OSError")]
  /\ UNCHANGED <<config, disk, master, locals, history>>

\* write_worker_result, lines 60-64: header and row written, file closed,
\* lock released; then the loop of execute_worker_job goes on or ends
WriteRow(w) ==
  /\ mpc = "running"
  /\ pc[w] = "opened"
  /\ files' = [files EXCEPT ![w] = write_worker_result(@, is_new_file[w], result[w])]
  /\ lock' = LockReleased(w)
  /\ appended' = [appended EXCEPT ![w] = @ + 1]
  /\ idx' = [idx EXCEPT ![w] = @ + 1]
  /\ pc' = [pc EXCEPT ![w] = IF idx[w] = Len(work_to_do[w]) THEN "done" ELSE "loop"]
  /\ UNCHANGED <<config, dirs, listing, output, master, already_done_tuples, work_to_do,
                 result, is_new_file, raised, processed, calls, prev>>

Worker(w) ==
  \/ LoadProgress(w)
  \/ ProcessPair(w)
  \/ OpenFile(w)
  \/ OpenFails(w)
  \/ WriteRow(w)

Next ==
  \/ MainStart
  \/ \E w \in WorkerIds : Worker(w)
  \/ MainConsolidate
  \/ Rerun
  \/ Crash

Spec == Init /\ [][Next]_vars

\* ------------------------------------------------- the partition alone
\* main up to the submission of the tasks, on longer lists and more workers
InitPartition ==
  /\ api_key = Some(<<"AIza">>)
  /\ tuples_file \in {Some(l) : l \in SeqsUpTo(Pairs, MaxPartLen)}
  /\ NUM_WORKERS \in 1..MaxPartWorkers
  /\ dirs = {INPUT_DIR}
  /\ files = [w \in WorkerIds |-> None]
  /\ listing = <<>>
  /\ InitControl

SpecPartition == InitPartition /\ [][MainStart]_vars

\* ------------------------------------- a run over a progress file found
\* A row as it is left when the write of it stops inside cell k, after j
\* characters of that cell (j = 0: right after the separator before it).
Truncate(row, k, j) == SubSeq(row, 1, k - 1) \o <<SubSeq(row[k], 1, j)>>

Truncations(row) ==
  UNION {{Truncate(row, k, j) : j \in 0..Len(row[k])} : k \in 1..Len(row)} \ {<<<<>>>>}

\* rows a progress file may hold: whole rows of earlier results, what is left
\* of them when the write was cut, a blank line, a repeated header
FoundRecords ==
  {[zat_ori |-> 1, zat_des |-> 1, distance_m |-> Some(5), duration_s |-> Some(5),
    error_api |-> None],
   [zat_ori |-> 1, zat_des |-> 2, distance_m |-> None, duration_s |-> None,
    error_api |-> Some(DestError(2))]}
FoundRows ==
  UNION {Truncations(RowOf(r)) : r \in FoundRecords} \cup {<<>>, HeaderRow}

FoundFiles ==
  {None, Some(<<>>), Some(<<HeaderRow>>)}
  \cup {Some(<<HeaderRow, r>>) : r \in FoundRows}
  \cup {Some(<<HeaderRow, RowOf(r), t>>) : r \in FoundRecords, t \in FoundRows}

InitStore ==
  /\ api_key = Some(<<"AIza">>)
  /\ tuples_file \in {Some(l) : l \in SeqsUpTo(Pairs, MaxLen) \ {<<>>}}
  /\ NUM_WORKERS \in 1..MaxWorkers
  /\ dirs = {INPUT_DIR, BLOCKS_DIR}
  /\ \E f \in FoundFiles :
       /\ files = [w \in WorkerIds |-> IF w = 0 THEN f ELSE None]
       /\ listing = IF f = None THEN <<>> ELSE <<0>>
  /\ InitControl

NextStore ==
  \/ MainStart
  \/ \E w \in WorkerIds : Worker(w)

SpecStore == InitStore /\ [][NextStore]_vars

\* ------------------------------ runs cut short and resumed, no progress
\* Runs that are terminated and started again, the first of them finding
\* the progress file of worker 0 missing, empty or holding its header alone.
BlankFiles == {None, Some(<<>>), Some(<<HeaderRow>>)}

InitResume ==
  /\ api_key = Some(<<"AIza">>)
  /\ tuples_file \in {Some(l) : l \in SeqsUpTo(Pairs, MaxLen) \ {<<>>}}
  /\ NUM_WORKERS \in 1..MaxWorkers
  /\ dirs = {INPUT_DIR, BLOCKS_DIR}
  /\ \E f \in BlankFiles :
       /\ files = [w \in WorkerIds |-> IF w = 0 THEN f ELSE None]
       /\ listing = IF f = None THEN <<>> ELSE <<0>>
  /\ InitControl

NextResume ==
  \/ MainStart
  \/ \E w \in WorkerIds : Worker(w)
  \/ Crash

SpecResume == InitResume /\ [][NextResume]_vars

\* ------------------------------------------- one run, scheduled fairly
\* One run of main to its end.  The progress file of worker 0 may be left
\* from an earlier run: empty, a header alone, whole (one row), or with its
\* last row cut after the first separator.
RunFiles ==
  {None, Some(<<>>), Some(<<HeaderRow>>)}
    \cup {Some(<<HeaderRow, RowOf(r)>>) : r \in FoundRecords}
    \cup {Some(<<HeaderRow, Truncate(RowOf(r), 2, 0)>>) : r \in FoundRecords}

InitRun ==
  /\ api_key \in ApiKeys
  /\ tuples_file \in {None} \cup {Some(l) : l \in SeqsUpTo(Pairs, MaxLen)}
  /\ NUM_WORKERS \in 1..MaxWorkers
  /\ \E f \in RunFiles :
       /\ files = [w \in WorkerIds |-> IF w = 0 THEN f ELSE None]
       /\ listing = IF f = None THEN <<>> ELSE <<0>>
       /\ dirs = (IF tuples_file = None THEN {} ELSE {INPUT_DIR})
                   \cup (IF f = None THEN {} ELSE {BLOCKS_DIR})
  /\ InitControl

NextRun ==
  \/ MainStart
  \/ \E w \in WorkerIds : Worker(w)
  \/ MainConsolidate

\* main runs on; every pool thread that can take a step is scheduled
\* (ThreadPoolExecutor starts one thread per task: there are no more tasks
\* than max_workers)
FairRun ==
  /\ WF_vars(MainStart)
  /\ WF_vars(MainConsolidate)
  /\ \A w \in WorkerIds : WF_vars(Worker(w))

SpecRun == InitRun /\ [][NextRun]_vars /\ FairRun

\* ================================================================ claims
\* What the claims are stated with; none of it is taken from the operators
\* above that model the partition, the store or the pair processor.
TupleList == IF tuples_file = None THEN <<>> ELSE tuples_file[1]

\* the least b with b * n >= len
ChunkSize(len, n) == CHOOSE b \in 1..len : b * n >= len /\ (b - 1) * n < len

\* the pairs at the list positions that fall to each worker, in list order
OwnedBlocks ==
  IF TupleList = <<>> THEN [w \in WorkerIds |-> <<>>]
  ELSE LET len == Len(TupleList)
           b == ChunkSize(len, NUM_WORKERS)
       IN  [w \in WorkerIds |->
             LET first == w * b
                 last == IF first + b <= len THEN first + b ELSE len
             IN  IF first >= len THEN <<>>
                 ELSE [i \in 1..(last - first) |-> TupleList[first + i]]]
OwnedPairs(w) == OwnedBlocks[w]

RECURSIVE Flatten(_)
Flatten(blocks) == IF blocks = <<>> THEN <<>> ELSE blocks[1] \o Flatten(Tail(blocks))

CountIn(seq, x) == Cardinality({i \in DOMAIN seq : seq[i] = x})
Elements(seq) == {seq[i] : i \in DOMAIN seq}
NoRepeat(seq) == \A i, j \in DOMAIN seq : seq[i] = seq[j] => i = j

\* the rows of a progress file below its header
DataRows(file) == IF file = None \/ file[1] = <<>> THEN <<>> ELSE Tail(file[1])
\* the two key cells of the rows written for a pair
PairKey == [p \in Pairs |-> <<IntToStr(p[1]), IntToStr(p[2])>>]
HasKey(row, p) == Len(row) >= 2 /\ row[1] = PairKey[p][1] /\ row[2] = PairKey[p][2]
CountRows(file, p) ==
  IF file = None THEN 0
  ELSE LET rows == DataRows(file)
       IN  Cardinality({i \in DOMAIN rows : HasKey(rows[i], p)})

Active(w) == pc[w] \in {"loop", "write", "opened", "done", "failed"}

\* C3: partition completeness.  The blocks main computes, concatenated in
\* index order, are the pair list; block k is the stretch of the list that
\* starts at (k-1)*b and is b long (less at the end of the list), b the
\* least size with b * NUM_WORKERS >= length: the boundaries depend on the
\* length and the worker count alone.  An empty list is not partitioned.
C3_PartitionCompleteness ==
  /\ mpc = "no_tuples" => TupleList = <<>> /\ work_blocks = <<>>
  /\ mpc = "running" =>
       LET len == Len(TupleList)
           b == ChunkSize(len, NUM_WORKERS)
       IN  /\ Flatten(work_blocks) = TupleList
           /\ \A k \in 1..Len(work_blocks) :
                LET from == (k - 1) * b
                    size == IF from + b <= len THEN b ELSE len - from
                IN  /\ size >= 1
                    /\ Len(work_blocks[k]) = size
                    /\ \A i \in 1..size : work_blocks[k][i] = TupleList[from + i]

C3_Witness ==
  /\ mpc = "running"
  /\ Len(work_blocks) >= 3
  /\ Len(work_blocks[Len(work_blocks)]) < Len(work_blocks[1])

\* C5 as claimed: a non-empty list is cut into exactly NUM_WORKERS blocks.
C5_ExactlyNumWorkersBlocks ==
  mpc = "running" => Len(work_blocks) = NUM_WORKERS

\* C5 amended: a non-empty list is cut into at most NUM_WORKERS blocks, each
\* of size b = the least size with b * NUM_WORKERS >= length, but the last,
\* which holds between 1 and b pairs; there are exactly NUM_WORKERS blocks
\* when NUM_WORKERS divides the length.
C5_AtMostNumWorkersBlocks ==
  mpc = "running" =>
    LET len == Len(TupleList)
        b == ChunkSize(len, NUM_WORKERS)
        n == Len(work_blocks)
    IN  /\ 1 <= n /\ n <= NUM_WORKERS
        /\ \A k \in 1..(n - 1) : Len(work_blocks[k]) = b
        /\ 1 <= Len(work_blocks[n]) /\ Len(work_blocks[n]) <= b
        /\ (n - 1) * b < len /\ len <= n * b
        /\ len % NUM_WORKERS = 0 => n = NUM_WORKERS

C5_Witness ==
  /\ mpc = "running"
  /\ Len(TupleList) >= NUM_WORKERS
  /\ Len(work_blocks) < NUM_WORKERS

\* C1: idempotent resume.  In a run that follows a run that went through
\* partition, every worker and consolidation with no worker failing, with
\* the progress files left in place: every worker finds nothing left to do,
\* gives no pair to the pair processor, queries the provider for none and
\* appends no row; and the output consolidation leaves is the output the
\* run before left.
C1_IdempotentResume ==
  prev.clean =>
    /\ \A w \in WorkerIds :
         /\ processed[w] = <<>> /\ calls[w] = <<>> /\ appended[w] = 0
         /\ raised[w] = None
         /\ Active(w) => pc[w] = "done" /\ work_to_do[w] = <<>>
    /\ mpc = "finished" => output = prev.output

C1_Witness ==
  /\ prev.clean
  /\ mpc = "finished"
  /\ Len(work_blocks) >= 2
  /\ output # None /\ Len(output[1]) >= 3

\* what C2 says of a resumed worker, as claimed and as amended: the pairs
\* given to the pair processor are the first of work_to_do in order; every
\* row of the log with the key of a pair of work_to_do was appended by this
\* run (so no pair that was in the log when the run started is in
\* work_to_do); all pairs processed but the last one are in the log.
C2_ResumeSkipsLogged(w) ==
  work_to_do[w] # <<>> \/ processed[w] # <<>> \/ appended[w] # 0 =>
  /\ Len(processed[w]) <= Len(work_to_do[w])
  /\ processed[w] = SubSeq(work_to_do[w], 1, Len(processed[w]))
  /\ appended[w] <= Len(processed[w])
  /\ Len(processed[w]) - appended[w] <= 1
  /\ \A p \in Elements(work_to_do[w]) :
       CountRows(files[w], p) = CountIn(SubSeq(work_to_do[w], 1, appended[w]), p)

\* C2 as claimed: over runs cut short by termination and resumed, a log
\* holds at most one row for any (origin, dest) key.
C2_OneRecordPerKey ==
  \A w \in WorkerIds :
    /\ files[w] # None => \A p \in Pairs : CountRows(files[w], p) <= 1
    /\ C2_ResumeSkipsLogged(w)

\* C2 amended: a row is appended once per list position: a log holds no
\* more rows for a key than the worker's block holds that pair (one when no
\* pair is repeated in the block); a pair in the log when a run starts is
\* not processed by it; a termination loses the pair in flight at most.
C2_OncePerListPosition ==
  \A w \in WorkerIds :
    /\ files[w] # None =>
         LET own == OwnedPairs(w)
         IN  \A p \in Pairs : CountRows(files[w], p) <= CountIn(own, p)
    /\ C2_ResumeSkipsLogged(w)

C2_Witness ==
  \E w \in WorkerIds :
    /\ already_done_tuples[w] # {}
    /\ appended[w] >= 1
    /\ Len(DataRows(files[w])) >= 2

\* the pairs a worker has given to the pair processor or has in its log
Touched(w) ==
  Elements(processed[w])
    \cup (IF files[w] = None THEN {} ELSE {p \in Pairs : CountRows(files[w], p) > 0})

\* C4 as claimed: no two workers process, or log, the same (origin, dest).
C4_NoPairOnTwoWorkers ==
  LET touched == [w \in WorkerIds |-> Touched(w)]
  IN  \A w1, w2 \in WorkerIds : w1 < w2 => touched[w1] \cap touched[w2] = {}

\* C4 amended: every list position falls to one block and one worker, a
\* worker processes and logs pairs of its own block only; no two workers
\* process or log the same pair when no pair is repeated in the list.
C4_OwnBlockOnly ==
  LET owned == OwnedBlocks
      touched == [w \in WorkerIds |-> Touched(w)] IN
  /\ \A w \in WorkerIds : touched[w] # {} => touched[w] \subseteq Elements(owned[w])
  /\ mpc \in {"running", "finished"} =>
       /\ \A w \in WorkerIds :
            IF w < Len(work_blocks) THEN work_blocks[w + 1] = owned[w]
            ELSE owned[w] = <<>> /\ pc[w] = "idle"
       /\ Len(work_blocks) <= Cardinality(WorkerIds)
  /\ NoRepeat(TupleList) =>
       \A w1, w2 \in WorkerIds : w1 < w2 => touched[w1] \cap touched[w2] = {}

C4_Witness ==
  /\ NoRepeat(TupleList)
  /\ \E w1, w2 \in WorkerIds : w1 # w2 /\ appended[w1] >= 1 /\ appended[w2] >= 1

\* C6: record completeness.  Every row of every log has distance and
\* duration and no error, or an error and neither distance nor duration.
C6_RecordCompleteness ==
  \A w \in WorkerIds : \A i \in DOMAIN DataRows(files[w]) :
    LET row == DataRows(files[w])[i]
    IN  /\ Len(row) = 5
        /\ \/ row[3] # <<>> /\ row[4] # <<>> /\ row[5] = <<>>
           \/ row[5] # <<>> /\ row[3] = <<>> /\ row[4] = <<>>

C6_Witness ==
  \E w \in WorkerIds : \E i, j \in DOMAIN DataRows(files[w]) :
    /\ DataRows(files[w])[i][3] # <<>>
    /\ DataRows(files[w])[j][5] # <<>>

Known(zone) == \E r \in coords_df : r[1] = zone
Resolved(p) == Known(p[1]) /\ Known(p[2])
Mentions(text, piece) == \E i \in DOMAIN text : text[i] = piece

\* C7: fail fast.  The provider is queried for the pairs whose two zones are
\* in the coordinate table and for no other; the record of a pair with an
\* unresolved zone has no distance, no duration and an error that names the
\* origin when and only when the origin is unresolved, and so for the
\* destination.
C7_FailFast ==
  \A w \in WorkerIds :
    /\ calls[w] = SelectSeq(processed[w], Resolved)
    /\ pc[w] \in {"write", "opened"} =>
         LET p == processed[w][Len(processed[w])]
         IN  ~Resolved(p) =>
               /\ result[w].zat_ori = p[1] /\ result[w].zat_des = p[2]
               /\ result[w].distance_m = None /\ result[w].duration_s = None
               /\ result[w].error_api # None /\ result[w].error_api[1] # <<>>
               /\ Mentions(result[w].error_api[1], "Origin '") <=> ~Known(p[1])
               /\ Mentions(result[w].error_api[1], "Dest '") <=> ~Known(p[2])

C7_Witness ==
  \E w \in WorkerIds :
    /\ pc[w] = "write"
    /\ processed[w][Len(processed[w])] = <<2, 2>>
    /\ calls[w] # <<>>

\* C8 as claimed: whatever the provider answers, the worker task is not
\* ended by an exception of the provider call.
C8_ProviderNeverAborts ==
  \A w \in WorkerIds : raised[w] \notin {Some("KeyError"), Some("IndexError")}

\* C9 as claimed: whatever the progress file holds, loading it raises
\* nothing into the worker.
C9_LoadNeverRaises ==
  \A w \in WorkerIds : raised[w] # Some("ValueError")

Blank(file) == file = None \/ file[1] = <<>> \/ file[1] = <<HeaderRow>>

\* C10: a progress file that is missing, empty or a header alone is no
\* progress: loading it raises nothing and gives the empty set, the worker
\* has its whole block to do, and its first append leaves the header and
\* the row, the same in the three cases.
C10_BlankProgressTolerated ==
  [][\A w \in WorkerIds :
       /\ (pc[w] = "start" /\ pc'[w] # "start" /\ Blank(files[w])) =>
            /\ raised'[w] = None
            /\ already_done_tuples'[w] = {}
            /\ work_to_do'[w] = OwnedPairs(w)
            /\ pc'[w] = "loop"
       /\ (pc[w] = "opened" /\ pc'[w] # "opened" /\ Blank(files[w])) =>
            /\ Len(files'[w][1]) = 2
            /\ files'[w][1][1] = HeaderRow
            /\ HasKey(files'[w][1][2], <<result[w].zat_ori, result[w].zat_des>>)]_vars

\* a header alone was loaded as no progress; the first row is about to be
\* appended below it
C10_Witness ==
  /\ pc[0] = "opened"
  /\ files[0] = Some(<<HeaderRow>>)
  /\ ~is_new_file[0]
  /\ already_done_tuples[0] = {}
  /\ work_to_do[0] = OwnedPairs(0)

InSection(w) == pc[w] = "opened"

\* C11: writer mutual exclusion.  At most one worker thread at a time is
\* between the entry of `with lock` and its exit (existence check, open,
\* header, row), and it is the one holding the lock; a step that changes a
\* progress file is a step of the worker task of that file, taken inside
\* the section, and it changes no other progress file.
C11_WriterMutualExclusion ==
  /\ [](\A w1, w2 \in WorkerIds : InSection(w1) /\ InSection(w2) => w1 = w2)
  /\ [](\A w \in WorkerIds : InSection(w) <=> lock = Some(w))
  /\ [][\A w \in WorkerIds :
          files'[w] # files[w] =>
            /\ w \in Launched
            /\ InSection(w) \/ InSection(w)'
            /\ \A v \in WorkerIds \ {w} : files'[v] = files[v] /\ ~InSection(v)]_vars

\* one worker is writing its row while another waits at the lock
C11_Witness ==
  \E w1, w2 \in WorkerIds :
    /\ w1 # w2
    /\ InSection(w1) /\ files[w1] # None /\ lock = Some(w1)
    /\ pc[w2] = "write"

\* worker w went through its block: a row in its log for every pair of it
Logged(w) == \A p \in Elements(OwnedPairs(w)) : CountRows(files[w], p) >= 1
Finished(w) ==
  /\ pc[w] = "done" /\ raised[w] = None
  /\ appended[w] = Len(work_to_do[w])
  /\ Logged(w)

\* C12: partial-failure tolerance.  A failed worker holds no lock, and once
\* a worker task has failed (loading its progress, processing a pair, or
\* opening its file under the lock) every launched worker comes to its end:
\* it has failed itself, or it has processed and appended every remaining
\* pair of its block and returned its summary.  No worker that started is
\* taken back: a worker leaves "done" or "failed" by no step of the run.
C12_PartialFailureTolerance ==
  /\ [](\A w \in WorkerIds : pc[w] = "failed" => lock # Some(w))
  /\ [][\A w \in WorkerIds :
          /\ pc[w] \in {"done", "failed"} => pc'[w] = pc[w]
          /\ pc[w] # "idle" => pc'[w] # "idle"]_vars
  /\ (\E v \in WorkerIds : pc[v] = "failed")
       ~> (\A w \in Launched : pc[w] = "failed" \/ Finished(w))

\* a worker failed opening its file and a sibling went through its block
C12_Witness ==
  \E v, w \in WorkerIds :
    /\ v # w
    /\ pc[v] = "failed" /\ raised[v] = Some("OSError")
    /\ Finished(w) /\ appended[w] >= 1

\* the run passed the key check and found its pair list
Admitted == ~KeyRefused(api_key) /\ tuples_file # None

\* C13 as claimed: a run that passed startup validation and loaded its
\* input does not return without having invoked the consolidator.
C13_AdmittedRunConsolidates ==
  Admitted => mpc \in {"start", "running", "finished"}

\* C13 amended: a run that passed startup validation and loaded a pair list
\* that is not empty comes to consolidation, whether its workers returned
\* or failed (a run whose list is empty returns before); consolidation
\* starts once every worker task is done, and from then on no progress
\* file changes.
C13_ConsolidatesAfterWorkers ==
  /\ (Admitted /\ tuples_file[1] # <<>>) ~> (mpc = "finished")
  /\ [](Admitted /\ tuples_file[1] = <<>> => mpc \in {"start", "no_tuples"})
  /\ [][mpc' = "finished" =>
          /\ \A w \in Launched : pc[w] \in {"done", "failed"}
          /\ files' = files /\ appended' = appended /\ pc' = pc]_vars

\* consolidation came after a worker that failed and one that returned
C13_Witness ==
  /\ mpc = "finished"
  /\ output # None
  /\ \E v, w \in Launched : pc[v] = "failed" /\ pc[w] = "done" /\ appended[w] >= 1

\* the rows of the consolidated output below its header
OutputRows == IF output = None \/ output[1] = <<>> THEN <<>> ELSE Tail(output[1])

RECURSIVE SumOver(_, _)
SumOver(f, S) ==
  IF S = {} THEN 0 ELSE LET x == CHOOSE x \in S : TRUE IN f[x] + SumOver(f, S \ {x})

\* C14 as claimed: once a run has consolidated, and some progress file holds
\* a row, the output holds as many rows as the progress files together,
\* and every row of every progress file is in it as often as it is in the
\* files altogether: none dropped, none twice, none merged with another.
C14_EveryRowInOutput ==
  (mpc = "finished" /\ \E w \in WorkerIds : DataRows(files[w]) # <<>>) =>
    /\ Len(OutputRows) = SumOver([w \in WorkerIds |-> Len(DataRows(files[w]))], WorkerIds)
    /\ \A w \in WorkerIds : \A i \in DOMAIN DataRows(files[w]) :
         LET row == DataRows(files[w])[i]
         IN  CountIn(OutputRows, row)
               = SumOver([v \in WorkerIds |-> CountIn(DataRows(files[v]), row)], WorkerIds)

NoRecords == \A w \in WorkerIds : DataRows(files[w]) = <<>>

\* C15 as claimed: when the progress files hold no record (they are
\* missing, empty, or a header alone), consolidation leaves the output
\* file as it was: it creates none and overwrites none.
C15_NothingToConsolidate ==
  [][mpc = "running" /\ mpc' = "finished" /\ NoRecords => output' = output]_vars

\* C16 as claimed: a run refused for its key, or for a missing input file,
\* ends before any work starts and leaves no trace: no worker is launched,
\* the provider is not queried, no progress file and no output is created
\* or changed, and nothing else (no directory) is created on disk.
C16_FatalStartupLeavesNothing ==
  [][mpc' \in {"no_key", "no_input"} =>
       /\ \A w \in WorkerIds : pc'[w] = "idle" /\ calls'[w] = <<>> /\ processed'[w] = <<>>
       /\ files' = files /\ listing' = listing /\ output' = output
       /\ dirs' = dirs]_vars

\* a row written for a record: five cells, the two keys integers
IsDataRow(row) == Len(row) = 5 /\ IsIntText(row[1]) /\ IsIntText(row[2])

\* C17: header written exactly once.  Over appends, terminations and
\* resumed runs that began with a progress file missing, empty or holding
\* the header alone, every progress file that holds anything holds the
\* header as its first row and nowhere else, every other row being a data
\* row; and a file that was appended to holds something.
C17_HeaderExactlyOnce ==
  \A w \in WorkerIds :
    /\ (files[w] # None /\ files[w][1] # <<>>) =>
         /\ files[w][1][1] = HeaderRow
         /\ \A i \in 2..Len(files[w][1]) :
              files[w][1][i] # HeaderRow /\ IsDataRow(files[w][1][i])
    /\ appended[w] >= 1 => files[w] # None /\ Len(files[w][1]) >= 2

\* a run found the header alone and appended its first row below it,
\* writing no second header
C17_Witness ==
  \E w \in WorkerIds :
    /\ appended[w] = 1 /\ ~is_new_file[w] /\ pc[w] \in {"loop", "done"}
    /\ Len(files[w][1]) = 2

\* the rows of worker w's log that were there when its run loaded it
RowsFound(w) ==
  LET rows == DataRows(files[w]) IN SubSeq(rows, 1, Len(rows) - appended[w])
\* the rows this run of worker w appended
RowsAppended(w) ==
  LET rows == DataRows(files[w]) IN SubSeq(rows, Len(rows) - appended[w] + 1, Len(rows))
BearsError(row) == Len(row) = 5 /\ row[5] # <<>>

\* C18: completion goes by the pair, not by the outcome.  In a resumed
\* run, a pair whose row in the log bears an error (a zone without
\* coordinates, a transport error, an error answer of the provider) is not
\* in the remaining list, is not given to the pair processor, causes no
\* provider call and gets no second row.
C18_ErrorsAreDone ==
  \A w \in WorkerIds :
    (Active(w) /\ files[w] # None) =>
      LET found == RowsFound(w)
          added == RowsAppended(w)
      IN  \A i \in DOMAIN found :
            BearsError(found[i]) =>
              \A p \in Pairs :
                HasKey(found[i], p) =>
                  /\ p \in already_done_tuples[w]
                  /\ p \notin Elements(work_to_do[w])
                  /\ p \notin Elements(processed[w])
                  /\ p \notin Elements(calls[w])
                  /\ \A j \in DOMAIN added : ~HasKey(added[j], p)

\* a resumed worker left alone the pair the provider had failed on and
\* went on with the next pair of its block
C18_Witness ==
  \E w \in WorkerIds :
    /\ pc[w] = "done" /\ appended[w] = 1
    /\ Len(RowsFound(w)) = 1
    /\ BearsError(RowsFound(w)[1]) /\ HasKey(RowsFound(w)[1], <<1, 1>>)

IsPrefix(s, t) == Len(s) <= Len(t) /\ \A i \in DOMAIN s : s[i] = t[i]

\* C19: append-only logs and failure frame.  No step, of any worker, of
\* main, or a termination, takes a row out of a progress file or changes
\* one.  A progress file changes only by its own worker opening or writing
\* it: the open creates it empty, the write adds (below the header) one
\* row at the end, the row of the pair in flight; no other worker's file
\* changes in that step.  When the append fails, the worker's task ends
\* with an exception in its future, takes no further step in the run, and
\* every file is as it was.
C19_AppendOnlyFailureFrame ==
  [][\A w \in WorkerIds :
       /\ files[w] # None => files'[w] # None /\ IsPrefix(files[w][1], files'[w][1])
       /\ files'[w] # files[w] =>
            /\ pc[w] \in {"write", "opened"}
            /\ \A v \in WorkerIds \ {w} : files'[v] = files[v]
            /\ pc[w] = "write" => files[w] = None /\ files'[w] = Some(<<>>)
            /\ pc[w] = "opened" =>
                 LET old == DataRows(files[w])
                     new == DataRows(files'[w])
                 IN  /\ Len(new) = Len(old) + 1
                     /\ IsPrefix(old, new)
                     /\ HasKey(new[Len(new)], <<result[w].zat_ori, result[w].zat_des>>)
                     /\ files'[w][1][1] = HeaderRow
       /\ (pc[w] \in {"write", "opened"} /\ pc'[w] = "failed") =>
            raised'[w] # None /\ files' = files
       /\ pc[w] = "failed" => pc'[w] \in {"failed", "idle"}]_vars

\* a worker's append failed after an earlier append of the same run: the
\* row of the earlier one is in its log
C19_Witness ==
  \E w \in WorkerIds :
    /\ pc[w] = "failed" /\ raised[w] = Some("OSError")
    /\ appended[w] >= 1
    /\ Len(DataRows(files[w])) >= 1

\* C20: output coverage.  When a run, the last of any sequence of
\* terminated and resumed runs over the same pair list and worker count,
\* has consolidated and none of its workers failed, every pair of the list
\* has a row in the log of the worker whose block holds it, and a row in
\* the consolidated output.
C20_OutputCoverage ==
  (mpc = "finished" /\ \A w \in WorkerIds : raised[w] = None) =>
    LET out == OutputRows
    IN  \A w \in WorkerIds : \A p \in Elements(OwnedPairs(w)) :
          /\ CountRows(files[w], p) >= 1
          /\ \E i \in DOMAIN out : HasKey(out[i], p)

\* the last run found rows of an earlier, terminated run in a worker's log,
\* appended the rest of that worker's block and consolidated
C20_Witness ==
  /\ mpc = "finished"
  /\ \A w \in WorkerIds : raised[w] = None
  /\ \E w \in WorkerIds : already_done_tuples[w] # {} /\ appended[w] >= 1

====
